---------------------------- MODULE Spec2Model ----------------------------
(***************************************************************************)
(* A model of the burndown core of labours (src/python/labours/modes/      *)
(* burndown.py): interpolate_burndown_matrix, fit_kaplan_meier and         *)
(* load_burndown; of the older copy of load_burndown in labours/           *)
(* burndown.py; and of the CORS web server (cors_web_server.py) as used    *)
(* by write_embeddings and main.                                           *)
(*                                                                         *)
(* Numbers.  The code computes in floating point (daily is float32).  The  *)
(* model computes in exact rational arithmetic: a number is a pair         *)
(* <<n, d>> with d > 0 and gcd(n, d) = 1.  Matrix entries are integers     *)
(* (line counts).                                                          *)
(*                                                                         *)
(* Indices.  Python indexes from 0 and range(a, b) is a .. b-1; the model  *)
(* keeps both, so matrix and daily are functions over 0 .. n-1.            *)
(***************************************************************************)
EXTENDS Integers, Sequences, FiniteSets, TLC

VARIABLES
    pc,           \* where the running routine stands
    matrix,       \* the burndown matrix, matrix[y][x]
    granularity,  \* header: ticks per band
    sampling,     \* header: ticks per sample
    daily,        \* interpolate_burndown_matrix: the daily array
    cy,           \* interpolate_burndown_matrix: the band index y of the loop
    cx,           \* interpolate_burndown_matrix: the sample index x of the loop
    T,            \* fit_kaplan_meier: the durations collected
    W,            \* fit_kaplan_meier: the weights collected
    E,            \* fit_kaplan_meier: the death flags handed to the estimator
    entries,      \* fit_kaplan_meier: per band, the sample it last rose at
    dead,         \* fit_kaplan_meier: the bands that hit zero while entered
    ki,           \* fit_kaplan_meier: the loop index i
    kmf,          \* fit_kaplan_meier: what is returned
    start,        \* load_burndown: header start, floored, as a day number
    last_days,    \* load_burndown: (last - start).days
    resample,     \* load_burndown: the resample argument, then its alias
    report_survival,            \* load_burndown: the argument
    finish,                     \* load_burndown: the end of the data
    periods,                    \* load_burndown: the number of boundaries
    date_granularity_sampling,  \* load_burndown: the boundaries
    result,       \* load_burndown: <<the tuple returned>>, <<>> before
    calls,        \* the resample arguments of the nested load_burndown calls
    events,       \* what has been run and printed, in order
    main_pc,      \* cli.main and write_embeddings: where the main thread stands
    run_server,   \* write_embeddings: the argument (not args.disable_projector)
    all_mode,     \* cli.main: whether all the modes were asked for
    pending,      \* cli.main: the modes that write embeddings still to run
    thread,       \* web_server.thread: the state of the server thread
    server,       \* web_server.server
    shutdown_request,  \* the server's shutdown flag, set by server.shutdown()
    start_calls   \* how many times web_server.thread.start() was called

interpVars == <<matrix, granularity, sampling, daily, cy, cx>>
kmVars == <<T, W, E, entries, dead, ki, kmf>>
loadVars == <<start, last_days, resample, report_survival, finish, periods,
              date_granularity_sampling, result, calls, events>>
serverVars == <<main_pc, run_server, all_mode, pending, thread, server, shutdown_request,
                start_calls>>
vars == <<pc, interpVars, kmVars, loadVars, serverVars>>

(***************************************************************************)
(* Bounds of the model.                                                    *)
(***************************************************************************)
\* matrix entries are drawn from 0 .. MaxVal
MaxVal == 2
\* a matrix has at most MaxCells cells (bands * samples)
MaxCells == 6
\* a matrix handed to load_burndown has at most MaxLoadCells cells
MaxLoadCells == 3
\* the last commit is at most MaxLastGap days before the end of the data
MaxLastGap == 2
\* a run of main has at most MaxCalls modes that write embeddings
MaxCalls == 4

(***************************************************************************)
(* Exact rational arithmetic.                                              *)
(***************************************************************************)
Abs(a) == IF a < 0 THEN -a ELSE a

RECURSIVE GCD(_, _)
GCD(a, b) == IF b = 0 THEN a ELSE GCD(b, a % b)

\* the rational n/d (d # 0) in lowest terms with a positive denominator
Rat(n, d) ==
    LET c == GCD(Abs(n), Abs(d))
        sg == IF d < 0 THEN -1 ELSE 1
    IN  <<sg * (n \div c), sg * (d \div c)>>

RInt(a) == <<a, 1>>
RZero == <<0, 1>>
ROne == <<1, 1>>
RAdd(p, q) == Rat(p[1] * q[2] + q[1] * p[2], p[2] * q[2])
RSub(p, q) == Rat(p[1] * q[2] - q[1] * p[2], p[2] * q[2])
RMul(p, q) == Rat(p[1] * q[1], p[2] * q[2])
\* p / q, used only where q is not zero
RDiv(p, q) == Rat(p[1] * q[2], p[2] * q[1])
RLess(p, q) == p[1] * q[2] < q[1] * p[2]
RIsZero(p) == p[1] = 0

\* the sum of f[i] over the finite set S of arguments
RECURSIVE RSum(_, _)
RSum(f, S) ==
    IF S = {} THEN RZero
    ELSE LET i == CHOOSE k \in S : TRUE
         IN  RAdd(f[i], RSum(f, S \ {i}))

\* Python's range(a, b)
Range(a, b) == a .. (b - 1)


(***************************************************************************)
(* interpolate_burndown_matrix.  M is the matrix (M[y][x], band y, sample  *)
(* x), g the granularity, s the sampling, d the daily array being filled.  *)
(***************************************************************************)
Bands(M) == Cardinality(DOMAIN M)
Samples(M) == Cardinality(DOMAIN M[0])

\* Python's index wrap-around: a negative index counts from the end
PyIndex(n, len) == IF n < 0 THEN n + len ELSE n

\* numpy.zeros((bands * granularity, samples * sampling))
ZeroDaily(M, g, s) ==
    [i \in Range(0, Bands(M) * g) |-> [j \in Range(0, Samples(M) * s) |-> RZero]]

\* the copy loop of grow, "copy [x*g..y*s)": column j takes rows
\* y*g .. x*s-1 from column j-1, for j = from, from+1, ..., finish_index-1
RECURSIVE growCopy(_, _, _, _, _, _, _)
growCopy(d, g, s, y, x, from, finish_index) ==
    IF from >= finish_index THEN d
    ELSE growCopy(
           [i \in DOMAIN d |-> [j \in DOMAIN d[i] |->
              IF j = from /\ i \in Range(y * g, x * s)
              THEN d[i][PyIndex(from - 1, Cardinality(DOMAIN d[i]))]
              ELSE d[i][j]]],
           g, s, y, x, from + 1, finish_index)

\* the first row grow fills: x*sampling, raised to y*granularity
growStart(g, s, y, x) == IF x * s < y * g THEN y * g ELSE x * s

\* the divisors grow uses
growDivisors(g, s, y, x, finish_index) ==
    IF finish_index = growStart(g, s, y, x) THEN {}
    ELSE {RInt(finish_index - growStart(g, s, y, x))}

\* growAvg with the previous sample's value forgotten (initial = 0)
growAvgFromZero(M, g, s, y, x, finish_index, finish_val) ==
    RDiv(finish_val, RInt(finish_index - growStart(g, s, y, x)))

\* avg of grow: the rise from the previous sample's value, per tick
growAvg(M, g, s, y, x, finish_index, finish_val) ==
    LET initial == IF x > 0 THEN M[y][x - 1] ELSE 0
    IN  RDiv(RSub(finish_val, RInt(initial)),
             RInt(finish_index - growStart(g, s, y, x)))

\* grow filling every row from start_index on, not only rows up to j
growAllRows(d, M, g, s, y, x, finish_index, finish_val) ==
    LET start_index == growStart(g, s, y, x)
    IN  IF finish_index = start_index THEN d
        ELSE LET avg == growAvg(M, g, s, y, x, finish_index, finish_val)
                 filled == [i \in DOMAIN d |-> [j \in DOMAIN d[i] |->
                              IF j \in Range(x * s, finish_index) /\ i >= start_index
                              THEN avg ELSE d[i][j]]]
             IN  growCopy(filled, g, s, y, x, x * s, finish_index)

grow(d, M, g, s, y, x, finish_index, finish_val) ==
    LET start_index == growStart(g, s, y, x)
    IN  IF finish_index = start_index THEN d
        ELSE LET avg == growAvg(M, g, s, y, x, finish_index, finish_val)
                 filled == [i \in DOMAIN d |-> [j \in DOMAIN d[i] |->
                              IF j \in Range(x * s, finish_index)
                                 /\ i \in Range(start_index, j + 1)
                              THEN avg ELSE d[i][j]]]
             IN  growCopy(filled, g, s, y, x, x * s, finish_index)

\* the divisors decay uses: start_val for k, and scale inside the loops
decayDivisors(g, s, y, x, start_index, start_val) ==
    IF RIsZero(start_val) THEN {}
    ELSE {start_val} \cup
         (IF Range(start_index, (x + 1) * s) # {}
          THEN {RInt((x + 1) * s - start_index)} ELSE {})

\* decayFactor one column late: (j - start_index) instead of (j - start_index + 1)
decayFactorOffByOne(k, j, start_index, scale) ==
    RAdd(ROne, RDiv(RMul(RSub(k, ROne), RInt(j - start_index)), RInt(scale)))

\* the factor decay applies at column j: 1 + (k - 1) * (j - start_index + 1) / scale
decayFactor(k, j, start_index, scale) ==
    RAdd(ROne, RDiv(RMul(RSub(k, ROne), RInt(j - start_index + 1)), RInt(scale)))

decay(d, M, g, s, y, x, start_index, start_val) ==
    IF RIsZero(start_val) THEN d
    ELSE LET k == RDiv(RInt(M[y][x]), start_val)
             scale == (x + 1) * s - start_index
         IN  [i \in DOMAIN d |-> [j \in DOMAIN d[i] |->
                IF i \in Range(y * g, (y + 1) * g)
                   /\ j \in Range(start_index, (x + 1) * s)
                THEN RMul(d[i][PyIndex(start_index - 1, Cardinality(DOMAIN d[i]))],
                          decayFactor(k, j, start_index, scale))
                ELSE d[i][j]]]

\* uniformFill that fills every row of the band in each column, the rows
\* after the column's day included
uniformFillWholeBand(d, M, g, s, y, x) ==
    LET avg == RDiv(RInt(M[y][x]), RInt((x + 1) * s - y * g))
    IN  [i \in DOMAIN d |-> [j \in DOMAIN d[i] |->
           IF j \in Range(y * g, (x + 1) * s) /\ i \in Range(y * g, (y + 1) * g)
           THEN avg ELSE d[i][j]]]

\* the uniform fill of a band that starts inside the sample window
uniformFill(d, M, g, s, y, x) ==
    LET avg == RDiv(RInt(M[y][x]), RInt((x + 1) * s - y * g))
    IN  [i \in DOMAIN d |-> [j \in DOMAIN d[i] |->
           IF j \in Range(y * g, (x + 1) * s) /\ i \in Range(y * g, j + 1)
           THEN avg ELSE d[i][j]]]

\* the straddle regime: whether the two preceding samples are both usable
straddleFull(g, s, y, x) == x > 0 /\ (x - 1) * s >= y * g

\* v1 = matrix[y][x - 1]; for x = 0 Python's index -1 is the last sample
straddleV1(M, y, x) == M[y][PyIndex(x - 1, Samples(M))]

straddlePrevious(M, g, s, y, x) ==
    IF straddleFull(g, s, y, x) /\ x > 1 THEN M[y][x - 2] ELSE 0

straddleScale(g, s, y, x) ==
    IF straddleFull(g, s, y, x) THEN s
    ELSE IF x = 0 THEN s ELSE x * s - y * g

\* peak = v1 + (v1 - previous) / scale * delta, extrapolated from the past
straddlePeak0(M, g, s, y, x) ==
    LET v1 == straddleV1(M, y, x)
        delta == (y + 1) * g - x * s
    IN  RAdd(RInt(v1),
             RMul(RDiv(RInt(v1 - straddlePrevious(M, g, s, y, x)),
                       RInt(straddleScale(g, s, y, x))),
                  RInt(delta)))

\* whether the peak is adjusted (v2 > peak)
straddleAdjust(M, g, s, y, x) == RLess(straddlePeak0(M, g, s, y, x), RInt(M[y][x]))

\* straddlePeak without the adjustment: always the extrapolated peak
straddlePeakUnadjusted(M, g, s, y, x) == straddlePeak0(M, g, s, y, x)

\* the peak handed to grow and decay
straddlePeak(M, g, s, y, x) ==
    IF straddleAdjust(M, g, s, y, x)
    THEN IF x < Samples(M) - 1
         THEN LET k == RDiv(RInt(M[y][x] - M[y][x + 1]), RInt(s))
              IN  RAdd(RInt(M[y][x]), RMul(k, RInt((x + 1) * s - (y + 1) * g)))
         ELSE RInt(M[y][x])
    ELSE straddlePeak0(M, g, s, y, x)

\* Regime with the growth test strict: a band that ends exactly with the
\* sample is taken into the straddle
RegimeStrictGrowth(g, s, y, x) ==
    IF y * g > (x + 1) * s THEN "future"
    ELSE IF (y + 1) * g > (x + 1) * s
         THEN IF y * g <= x * s THEN "growth"
              ELSE IF (x + 1) * s > y * g THEN "growth_fill"
              ELSE "growth_none"
    ELSE IF (y + 1) * g >= x * s THEN "straddle"
    ELSE "decay"

\* Regime with the straddle test strict: a band that ends exactly where the
\* sample starts is taken into the pure decay
RegimeStrictStraddle(g, s, y, x) ==
    IF y * g > (x + 1) * s THEN "future"
    ELSE IF (y + 1) * g >= (x + 1) * s
         THEN IF y * g <= x * s THEN "growth"
              ELSE IF (x + 1) * s > y * g THEN "growth_fill"
              ELSE "growth_none"
    ELSE IF (y + 1) * g > x * s THEN "straddle"
    ELSE "decay"

\* the regime of cell (y, x)
Regime(g, s, y, x) ==
    IF y * g > (x + 1) * s THEN "future"
    ELSE IF (y + 1) * g >= (x + 1) * s
         THEN IF y * g <= x * s THEN "growth"
              ELSE IF (x + 1) * s > y * g THEN "growth_fill"
              ELSE "growth_none"
    ELSE IF (y + 1) * g >= x * s THEN "straddle"
    ELSE "decay"

\* every divisor the body of the loop uses for cell (y, x), in the order of
\* the code; a later divisor is used only if the earlier ones are not zero
cellDivisors(M, g, s, y, x) ==
    LET r == Regime(g, s, y, x)
    IN  CASE r = "future" -> {}
          [] r = "growth" -> growDivisors(g, s, y, x, (x + 1) * s)
          [] r = "growth_fill" ->
               growDivisors(g, s, y, x, (x + 1) * s) \cup {RInt((x + 1) * s - y * g)}
          [] r = "growth_none" -> {}
          [] r = "straddle" ->
               IF straddleScale(g, s, y, x) = 0 THEN {RZero}
               ELSE {RInt(straddleScale(g, s, y, x))}
                    \cup (IF straddleAdjust(M, g, s, y, x) /\ x < Samples(M) - 1
                          THEN {RInt(s)} ELSE {})
                    \cup growDivisors(g, s, y, x, (y + 1) * g)
                    \cup decayDivisors(g, s, y, x, (y + 1) * g,
                                       straddlePeak(M, g, s, y, x))
          [] r = "decay" -> decayDivisors(g, s, y, x, x * s, RInt(M[y][x - 1]))

\* the body of the double loop for cell (y, x): the daily array afterwards
cellFill(d, M, g, s, y, x) ==
    LET r == Regime(g, s, y, x)
    IN  CASE r = "future" -> d
          [] r = "growth" -> grow(d, M, g, s, y, x, (x + 1) * s, RInt(M[y][x]))
          [] r = "growth_fill" ->
               uniformFill(grow(d, M, g, s, y, x, (x + 1) * s, RInt(M[y][x])),
                           M, g, s, y, x)
          [] r = "growth_none" -> d
          [] r = "straddle" ->
               LET peak == straddlePeak(M, g, s, y, x)
               IN  decay(grow(d, M, g, s, y, x, (y + 1) * g, peak),
                         M, g, s, y, x, (y + 1) * g, peak)
          [] r = "decay" -> decay(d, M, g, s, y, x, x * s, RInt(M[y][x - 1]))


\* the double loop run from cell (y, x) to the end, y outermost
RECURSIVE interpolateFrom(_, _, _, _, _, _)
interpolateFrom(d, M, g, s, y, x) ==
    IF y >= Bands(M) THEN d
    ELSE interpolateFrom(cellFill(d, M, g, s, y, x), M, g, s,
                         IF x + 1 < Samples(M) THEN y ELSE y + 1,
                         IF x + 1 < Samples(M) THEN x + 1 ELSE 0)

\* growReads with the copy loop started at row 0 instead of the band's
\* first row
growReadsFromRowZero(g, s, y, x, finish_index) ==
    IF finish_index = growStart(g, s, y, x) THEN {}
    ELSE {<<i, j - 1>> : i \in Range(0, x * s), j \in Range(x * s, finish_index)}

\* the entries of daily that grow reads, as <<row, column>> with the
\* indices as written in the code: daily[i][j - 1] of the copy loop
growReads(g, s, y, x, finish_index) ==
    IF finish_index = growStart(g, s, y, x) THEN {}
    ELSE {<<i, j - 1>> : i \in Range(y * g, x * s), j \in Range(x * s, finish_index)}

\* the entries of daily that decay reads: initial = daily[i][start_index - 1]
decayReads(g, s, y, x, start_index, start_val) ==
    IF RIsZero(start_val) THEN {}
    ELSE {<<i, start_index - 1>> : i \in Range(y * g, (y + 1) * g)}

\* the entries of daily that the body of the loop reads for cell (y, x)
cellReads(M, g, s, y, x) ==
    LET r == Regime(g, s, y, x)
    IN  CASE r = "future" -> {}
          [] r = "growth" -> growReads(g, s, y, x, (x + 1) * s)
          [] r = "growth_fill" -> growReads(g, s, y, x, (x + 1) * s)
          [] r = "growth_none" -> {}
          [] r = "straddle" ->
               growReads(g, s, y, x, (y + 1) * g)
               \cup decayReads(g, s, y, x, (y + 1) * g, straddlePeak(M, g, s, y, x))
          [] r = "decay" -> decayReads(g, s, y, x, x * s, RInt(M[y][x - 1]))

\* the whole function: the daily array returned
interpolate_burndown_matrix(M, g, s) ==
    interpolateFrom(ZeroDaily(M, g, s), M, g, s, 0, 0)

\* the caller's matrix after the call: the function reads matrix[y][x] and
\* writes to daily only
interpMatrix(M, g, s) == M

\* whether some cell of the run divides by zero
interpolateDividesByZero(M, g, s) ==
    \E y \in Range(0, Bands(M)) : \E x \in Range(0, Samples(M)) :
        RZero \in cellDivisors(M, g, s, y, x)

(***************************************************************************)
(* Dates.  load_burndown works on datetimes; the model takes the tick to   *)
(* be one day (86400 s, hercules' default), so that a daily column is a    *)
(* day, and counts days from 2019-11-01 (a Friday).  start is floored to   *)
(* the tick and every boundary pandas derives from it keeps its time of    *)
(* day, so a datetime is a day number and (a - b).days is a difference.    *)
(***************************************************************************)
IsLeap(yr) == (yr % 4 = 0 /\ yr % 100 # 0) \/ yr % 400 = 0

DaysInMonth(yr, mo) ==
    IF mo = 2 THEN (IF IsLeap(yr) THEN 29 ELSE 28)
    ELSE IF mo \in {4, 6, 9, 11} THEN 30 ELSE 31

\* the date <<year, month, day>> n days after the first of month mo of yr
RECURSIVE DateFrom(_, _, _)
DateFrom(yr, mo, n) ==
    IF n < DaysInMonth(yr, mo) THEN <<yr, mo, n + 1>>
    ELSE DateFrom(IF mo = 12 THEN yr + 1 ELSE yr,
                  IF mo = 12 THEN 1 ELSE mo + 1,
                  n - DaysInMonth(yr, mo))

\* the date of day number n
DateOf(n) == DateFrom(2019, 11, n)

\* Monday = 0 .. Sunday = 6
Weekday(n) == (n + 4) % 7

\* the last day of the month of day n
MonthEnd(n) == n + DaysInMonth(DateOf(n)[1], DateOf(n)[2]) - DateOf(n)[3]

\* the 31st of December of the year of day n
RECURSIVE YearEnd(_)
YearEnd(n) == IF DateOf(MonthEnd(n))[2] = 12 THEN MonthEnd(n) ELSE YearEnd(MonthEnd(n) + 1)

\* pandas offsets: the first boundary of freq at or after day n ("A" year
\* end, "M" month end, "W" Sunday, "D" every day)
RollForward(freq, n) ==
    CASE freq = "A" -> YearEnd(n)
      [] freq = "M" -> MonthEnd(n)
      [] freq = "W" -> n + (6 - Weekday(n))
      [] freq = "D" -> n

\* date_range with one boundary too many
RECURSIVE date_rangeInclusive(_, _, _)
date_rangeInclusive(st, n, freq) ==
    IF n < 0 THEN <<>>
    ELSE <<RollForward(freq, st)>>
         \o date_rangeInclusive(RollForward(freq, st) + 1, n - 1, freq)

\* pandas.date_range(start, periods=periods, freq=freq): the first
\* `periods` boundaries of freq at or after start
RECURSIVE date_range(_, _, _)
date_range(st, n, freq) ==
    IF n <= 0 THEN <<>>
    ELSE <<RollForward(freq, st)>> \o date_range(RollForward(freq, st) + 1, n - 1, freq)

(***************************************************************************)
(* load_burndown.                                                          *)
(***************************************************************************)
\* headerValid with the assertion on granularity forgotten
headerValidSamplingOnly(s, g) == s > 0

\* assert sampling > 0; assert granularity > 0
headerValid(s, g) == s > 0 /\ g > 0

\* aliases.get(resample, resample)
aliases(r) ==
    CASE r = "year" -> "A"
      [] r = "month" -> "M"
      [] r = "day" -> "D"
      [] OTHER -> r

\* finer with the month -> day retry missing
finerYearOnly(freq) ==
    CASE freq = "A" -> "month"
      [] OTHER -> ""

\* finer with year retried as day at once
finerSkipsMonth(freq) ==
    CASE freq = "A" -> "day"
      [] freq = "M" -> "day"
      [] OTHER -> ""

\* finer with every other alias retried by day
finerAlwaysDay(freq) ==
    CASE freq = "A" -> "month"
      [] freq = "M" -> "day"
      [] freq = "D" -> ""
      [] OTHER -> "day"

\* the resample argument of the recursive call, "" where the code raises
finer(freq) ==
    CASE freq = "A" -> "month"
      [] freq = "M" -> "day"
      [] OTHER -> ""

\* zeroLast one row early
zeroLastOffByOne(d, n) ==
    [i \in DOMAIN d |-> [j \in DOMAIN d[i] |-> IF i >= n - 1 THEN RZero ELSE d[i][j]]]

\* daily[(last - start).days :] = 0
zeroLast(d, n) ==
    [i \in DOMAIN d |-> [j \in DOMAIN d[i] |-> IF i >= n THEN RZero ELSE d[i][j]]]

\* fillColumn with the test of the inner loop strict: the first column
\* after istart
fillColumnStrict(first, n, istart) ==
    IF \E j \in Range(0, n) : first + j > istart
    THEN CHOOSE j \in Range(0, n) :
            /\ first + j > istart
            /\ \A k \in Range(0, n) : first + k > istart => j <= k
    ELSE n - 1

\* the index j the inner loop over date_range_sampling leaves: the first
\* column at or after istart, the last column when there is none; first is
\* (date_range_sampling[0] - start).days, n the number of columns (n > 0)
fillColumn(first, n, istart) ==
    IF \E j \in Range(0, n) : first + j >= istart
    THEN CHOOSE j \in Range(0, n) :
            /\ first + j >= istart
            /\ \A k \in Range(0, n) : first + k >= istart => j <= k
    ELSE n - 1

\* the new matrix: row i sums the daily rows from the previous boundary to
\* boundary i, for the columns from fillColumn on; dgs is
\* date_granularity_sampling, st is start, fin is finish
resampled(d, dgs, st, fin) ==
    LET first == dgs[1] - st
        n == fin - dgs[1]
    IN  [i \in Range(0, Len(dgs)) |->
          LET istart == IF i > 0 THEN dgs[i] - st ELSE 0
              ifinish == dgs[i + 1] - st
              rows == Range(istart, ifinish) \cap DOMAIN d
          IN  [k \in Range(0, n) |->
                 IF k >= fillColumn(first, n, istart)
                 THEN RSum([r \in rows |-> d[r][first + k]], rows)
                 ELSE RZero]]

\* labelsOf testing only the names of the request, which the alias has
\* replaced by then
labelsOfUnaliased(freq, dgs) ==
    [i \in 1 .. Len(dgs) |->
        IF freq = "year" THEN <<"%Y", DateOf(dgs[i])[1]>>
        ELSE IF freq = "month"
             THEN <<"%Y %B", DateOf(dgs[i])[1], DateOf(dgs[i])[2]>>
        ELSE <<"date">> \o DateOf(dgs[i])]

\* the labels of the resampling modes
labelsOf(freq, dgs) ==
    [i \in 1 .. Len(dgs) |->
        IF freq \in {"year", "A"} THEN <<"%Y", DateOf(dgs[i])[1]>>
        ELSE IF freq \in {"month", "M"}
             THEN <<"%Y %B", DateOf(dgs[i])[1], DateOf(dgs[i])[2]>>
        ELSE <<"date">> \o DateOf(dgs[i])]

\* the labels of the raw mode: "<band start date> - <band end date>"
rawLabels(M, st, g) ==
    [i \in 1 .. Bands(M) |->
        <<"%s - %s", DateOf(st + (i - 1) * g), DateOf(st + i * g)>>]

\* rawDates with matrix.shape[0] for the number of periods
rawDatesPerBand(M, st, s) == [i \in 1 .. Bands(M) |-> st + i * s]

\* the date axis of the raw mode:
\* date_range(start + sampling ticks, periods=samples, freq="<sampling>D")
rawDates(M, st, s) == [i \in 1 .. Samples(M) |-> st + i * s]

\* the while loop of load_burndown run to its end from `periods` boundaries:
\* the boundaries it leaves
RECURSIVE boundariesFrom(_, _, _, _, _)
boundariesFrom(st, fin, freq, n, dgs) ==
    IF dgs[Len(dgs)] < fin
    THEN boundariesFrom(st, fin, freq, n + 1, date_range(st, n + 1, freq))
    ELSE dgs

\* a whole call of load_burndown with a valid header: the error raised
\* ("" for none) and <<the tuple returned>>; L is (last - start).days
RECURSIVE loadOutcome(_, _, _, _, _, _)
loadOutcome(M, g, s, st, L, request) ==
    LET fin == st + Samples(M) * s
        freq == aliases(request)
        dgs == boundariesFrom(st, fin, freq, 0, <<st>>)
        d == zeroLast(interpolate_burndown_matrix(M, g, s), L)
    IN  IF request \in {"no", "raw"}
        THEN [error |-> "",
              result |-> <<[matrix |-> M,
                            date_range_sampling |-> rawDates(M, st, s),
                            labels |-> rawLabels(M, st, g),
                            granularity |-> g,
                            sampling |-> s,
                            resample |-> "M"]>>]
        ELSE IF dgs[1] > fin
        THEN IF finer(freq) # "" THEN loadOutcome(M, g, s, st, L, finer(freq))
             ELSE [error |-> "value_error", result |-> <<>>]
        ELSE IF fin - dgs[1] <= 0
        THEN [error |-> "unbound_local_error", result |-> <<>>]
        ELSE [error |-> "",
              result |-> <<[matrix |-> resampled(d, dgs, st, fin),
                            date_range_sampling |-> date_range(dgs[1], fin - dgs[1], "D"),
                            labels |-> labelsOf(freq, dgs),
                            granularity |-> g,
                            sampling |-> s,
                            resample |-> freq]>>]

\* the copy of load_burndown in labours/burndown.py: its aliases have no
\* entry for day
aliasesLabours(r) ==
    CASE r = "year" -> "A"
      [] r = "month" -> "M"
      [] OTHER -> r

\* the copy in labours/burndown.py: the resample argument of its recursive
\* call, "" where it raises; only a too coarse year attempt is retried
finerLabours(freq) ==
    CASE freq = "A" -> "month"
      [] OTHER -> ""

\* the frequency strings pandas.date_range accepts among those that reach
\* it here; "day" is not a pandas alias and makes to_offset raise ValueError
pandasFrequencies == {"A", "M", "D", "W"}

\* a whole call of the copy of load_burndown in labours/burndown.py with a
\* valid header; the lines it shares with labours/modes/burndown.py are the
\* same operators
RECURSIVE loadOutcomeLabours(_, _, _, _, _, _)
loadOutcomeLabours(M, g, s, st, L, request) ==
    LET fin == st + Samples(M) * s
        freq == aliasesLabours(request)
        dgs == boundariesFrom(st, fin, freq, 0, <<st>>)
        d == zeroLast(interpolate_burndown_matrix(M, g, s), L)
    IN  IF request \in {"no", "raw"}
        THEN [error |-> "",
              result |-> <<[matrix |-> M,
                            date_range_sampling |-> rawDates(M, st, s),
                            labels |-> rawLabels(M, st, g),
                            granularity |-> g,
                            sampling |-> s,
                            resample |-> "M"]>>]
        ELSE IF freq \notin pandasFrequencies
        THEN [error |-> "value_error", result |-> <<>>]
        ELSE IF dgs[1] > fin
        THEN IF finerLabours(freq) # ""
             THEN loadOutcomeLabours(M, g, s, st, L, finerLabours(freq))
             ELSE [error |-> "value_error", result |-> <<>>]
        ELSE IF fin - dgs[1] <= 0
        THEN [error |-> "unbound_local_error", result |-> <<>>]
        ELSE [error |-> "",
              result |-> <<[matrix |-> resampled(d, dgs, st, fin),
                            date_range_sampling |-> date_range(dgs[1], fin - dgs[1], "D"),
                            labels |-> labelsOf(freq, dgs),
                            granularity |-> g,
                            sampling |-> s,
                            resample |-> freq]>>]

(***************************************************************************)
(* The inputs.                                                             *)
(***************************************************************************)
\* (bands, samples), both at least 1
Shapes == {p \in (1 .. MaxCells) \X (1 .. MaxCells) : p[1] * p[2] <= MaxCells}

Matrices ==
    UNION {[Range(0, p[1]) -> [Range(0, p[2]) -> 0 .. MaxVal]] : p \in Shapes}

\* the matrix [[5, 3, 3, 3]] of the boundary scenario
BoundaryScenario == (0 :> (0 :> 5 @@ 1 :> 3 @@ 2 :> 3 @@ 3 :> 3))

\* the matrix [[10, 10, 5, 5, 0]] of the survival scenario
SurvivalScenario == (0 :> (0 :> 10 @@ 1 :> 10 @@ 2 :> 5 @@ 3 :> 5 @@ 4 :> 0))

\* (granularity, sampling): equal, granularity the larger (the three regimes,
\* a band that starts inside a sample, both shapes of the straddle), and
\* granularity the smaller
TickPairs == {<<1, 1>>, <<2, 1>>, <<3, 2>>, <<4, 3>>, <<1, 2>>}

(***************************************************************************)
(* fit_kaplan_meier: the survival extractor.  st is the record of its      *)
(* working state: T and W (the arrays appended so far, concatenated),      *)
(* entries and dead.                                                       *)
(***************************************************************************)
\* the elements of a finite set of integers in ascending order (a boolean
\* mask selects in index order)
RECURSIVE Ascending(_)
Ascending(S) ==
    IF S = {} THEN <<>>
    ELSE LET m == CHOOSE k \in S : \A n \in S : k <= n
         IN  <<m>> \o Ascending(S \ {m})

\* T = [], W = [], entries = zeros, dead = set()
kmStart(M) ==
    [T |-> <<>>, W |-> <<>>, entries |-> [y \in DOMAIN M |-> 0], dead |-> {}]

\* diff = matrix[:, i - 1] - matrix[:, i]
kmDiff(M, i) == [y \in DOMAIN M |-> M[y][i - 1] - M[y][i]]

\* kmMask that selects every band whose size changed, rises included
kmMaskAnyChange(M, i) == {y \in DOMAIN M : kmDiff(M, i)[y] # 0}

\* mask = diff > 0
kmMask(M, i) == {y \in DOMAIN M : kmDiff(M, i)[y] > 0}

\* kmEntries that keeps the first rise of a band: a later rise does not
\* reset the entry
kmEntriesFirstRise(ent, M, i) ==
    [y \in DOMAIN M |-> IF kmDiff(M, i)[y] < 0 /\ ent[y] = 0 THEN i ELSE ent[y]]

\* entries[diff < 0] = i
kmEntries(ent, M, i) ==
    [y \in DOMAIN M |-> IF kmDiff(M, i)[y] < 0 THEN i ELSE ent[y]]

\* kmDied without entered[0] = True: band 0 counts as entered only once it rose
kmDiedNoFirstBand(ent, M, i) == {y \in DOMAIN M : M[y][i] = 0 /\ ent[y] > 0}

\* entered = entries > 0; entered[0] = True;
\* the bands added to dead: (matrix[:, i] == 0) & entered
kmDied(ent, M, i) == {y \in DOMAIN M : M[y][i] = 0 /\ (ent[y] > 0 \/ y = 0)}

\* the body of the loop for sample i
kmScan(st, M, i) ==
    LET ent == kmEntries(st.entries, M, i)
        masked == Ascending(kmMask(M, i))
    IN  [T |-> st.T \o [k \in 1 .. Len(masked) |-> i - ent[masked[k]]],
         W |-> st.W \o [k \in 1 .. Len(masked) |-> kmDiff(M, i)[masked[k]]],
         entries |-> ent,
         dead |-> st.dead \cup kmDied(ent, M, i)]

\* kmSurvivors without nnzind[sorted(dead)] = False: the dead bands stay in
kmSurvivorsWithDead(st, M) == {y \in DOMAIN M : st.entries[y] # 0 \/ y = 0}

\* nnzind = entries != 0; nnzind[0] = True; nnzind[sorted(dead)] = False
kmSurvivors(st, M) == {y \in DOMAIN M : st.entries[y] # 0 \/ y = 0} \ st.dead

\* E = ones(len(T)); E[-nnzind.sum():] = 0, for T of length len and n
\* survivors: the slice [-n:] is the last n entries, and [-0:] is all of them
kmFlags(len, n) ==
    [k \in 1 .. len |-> IF n = 0 THEN FALSE ELSE k <= len - n]

\* kmFinish without the test of T.size: the estimator is fitted on any input
kmFinishAlwaysFits(st, M) ==
    LET nnz == Ascending(kmSurvivors(st, M))
        allT == st.T \o [k \in 1 .. Len(nnz) |-> Samples(M) - st.entries[nnz[k]]]
        allW == st.W \o [k \in 1 .. Len(nnz) |-> M[nnz[k]][Samples(M) - 1]]
    IN  [T |-> allT, W |-> allW, E |-> kmFlags(Len(allT), Len(nnz)),
         kmf |-> "fitted"]

\* the lines after the loop: the survivors appended as censored, E built,
\* None returned for no observation, the estimator fitted otherwise
kmFinish(st, M) ==
    LET nnz == Ascending(kmSurvivors(st, M))
        allT == st.T \o [k \in 1 .. Len(nnz) |-> Samples(M) - st.entries[nnz[k]]]
        allW == st.W \o [k \in 1 .. Len(nnz) |-> M[nnz[k]][Samples(M) - 1]]
    IN  [T |-> allT, W |-> allW, E |-> kmFlags(Len(allT), Len(nnz)),
         kmf |-> IF Len(allT) = 0 THEN "None" ELSE "fitted"]

\* the loop run from sample i to the end
RECURSIVE kmScanFrom(_, _, _)
kmScanFrom(st, M, i) ==
    IF i >= Samples(M) THEN st ELSE kmScanFrom(kmScan(st, M, i), M, i + 1)

\* kmMatrix with the difference of line 134 taken in place, in a view of
\* the matrix (diff = matrix[:, i - 1]; diff -= matrix[:, i])
kmMatrixInPlace(M) ==
    [y \in DOMAIN M |->
        [x \in DOMAIN M[y] |->
            IF x + 1 < Samples(M) THEN M[y][x] - M[y][x + 1] ELSE M[y][x]]]

\* the caller's matrix after the call: the function only reads it (lines
\* 130-148 index it and subtract into new arrays)
kmMatrix(M) == M

\* the whole function: T, W, E and what is returned
fit_kaplan_meier(M) == kmFinish(kmScanFrom(kmStart(M), M, 1), M)

\* the values of the extractor's variables while it is not running
KMIdle ==
    /\ T = <<>>
    /\ W = <<>>
    /\ E = <<>>
    /\ entries = <<>>
    /\ dead = {}
    /\ ki = 0
    /\ kmf = "unset"

\* the values of load_burndown's variables while it is not running
LoadIdle ==
    /\ start = 0
    /\ last_days = 0
    /\ resample = ""
    /\ report_survival = FALSE
    /\ finish = 0
    /\ periods = 0
    /\ date_granularity_sampling = <<>>
    /\ result = <<>>
    /\ calls = <<>>
    /\ events = <<>>

\* the values of the web server's variables while main is not running:
\* the module-level web_server = CORSWebServer() as constructed
ServerIdle ==
    /\ main_pc = "idle"
    /\ run_server = FALSE
    /\ all_mode = FALSE
    /\ pending = 0
    /\ thread = "initial"
    /\ server = "None"
    /\ shutdown_request = FALSE
    /\ start_calls = 0

\* the values of the interpolator's variables while it is not running
InterpIdle ==
    /\ granularity = 1
    /\ sampling = 1
    /\ daily = <<>>
    /\ cy = 0
    /\ cx = 0

(***************************************************************************)
(* interpolate_burndown_matrix as a state machine: one step per cell of    *)
(* the double loop, y outermost.                                           *)
(***************************************************************************)
InterpInit ==
    /\ matrix \in Matrices \cup {BoundaryScenario}
    /\ \E p \in TickPairs : granularity = p[1] /\ sampling = p[2]
    /\ daily = ZeroDaily(matrix, granularity, sampling)
    /\ cy = 0
    /\ cx = 0
    /\ pc = "interp"
    /\ KMIdle
    /\ LoadIdle
    /\ ServerIdle

\* the loop indices after cell (cy, cx)
NextCell ==
    IF cx + 1 < Samples(matrix) THEN <<cy, cx + 1>> ELSE <<cy + 1, 0>>

\* one iteration of the double loop; a zero divisor ends the run (numpy
\* yields inf or nan with a RuntimeWarning, Python numbers raise
\* ZeroDivisionError: either way the cell holds no number)
InterpCell ==
    /\ pc = "interp"
    /\ cy < Bands(matrix)
    /\ RZero \notin cellDivisors(matrix, granularity, sampling, cy, cx)
    /\ daily' = cellFill(daily, matrix, granularity, sampling, cy, cx)
    /\ cy' = NextCell[1]
    /\ cx' = NextCell[2]
    /\ UNCHANGED <<serverVars, pc, matrix, granularity, sampling, kmVars, loadVars>>

InterpZeroDivision ==
    /\ pc = "interp"
    /\ cy < Bands(matrix)
    /\ RZero \in cellDivisors(matrix, granularity, sampling, cy, cx)
    /\ pc' = "zero_division"
    /\ UNCHANGED <<serverVars, interpVars, kmVars, loadVars>>

\* return daily
InterpReturn ==
    /\ pc = "interp"
    /\ cy = Bands(matrix)
    /\ pc' = "interp_done"
    /\ matrix' = interpMatrix(matrix, granularity, sampling)
    /\ UNCHANGED <<serverVars, granularity, sampling, daily, cy, cx, kmVars, loadVars>>

InterpNext == InterpCell \/ InterpZeroDivision \/ InterpReturn

SpecInterp == InterpInit /\ [][InterpNext]_vars


(***************************************************************************)
(* Claims about interpolate_burndown_matrix (checked under SpecInterp).    *)
(***************************************************************************)
Cells == {c \in Range(0, Bands(matrix)) \X Range(0, Samples(matrix)) : TRUE}
BandRows(y) == Range(y * granularity, (y + 1) * granularity)
SampleCols(x) == Range(x * sampling, (x + 1) * sampling)

\* the valid inputs of the reconstruction claims: granularity >= sampling > 0,
\* zero where the band has not started before the end of the sample, and no
\* rise once the band has ended
ValidInput ==
    /\ granularity >= sampling
    /\ sampling > 0
    /\ \A c \in Cells :
         /\ matrix[c[1]][c[2]] >= 0
         /\ c[1] * granularity >= (c[2] + 1) * sampling => matrix[c[1]][c[2]] = 0
         /\ (c[2] > 0 /\ (c[1] + 1) * granularity <= c[2] * sampling)
              => matrix[c[1]][c[2]] <= matrix[c[1]][c[2] - 1]

\* the sum of band y's daily rows at daily column j
ColumnSum(y, j) == RSum([i \in BandRows(y) |-> daily[i][j]], BandRows(y))

\* the sum of the granularity x sampling block of daily aligned with cell (y, x)
BlockSum(y, x) == RSum([j \in SampleCols(x) |-> ColumnSum(y, j)], SampleCols(x))

\* C1: for every valid input, in the daily matrix returned, the sum of the
\* daily rows of band y at the last tick of sample x equals matrix[y][x]
\* in exact arithmetic, for every cell (y, x).
ColumnSumReconstruction ==
    (pc = "interp_done" /\ ValidInput) =>
        \A c \in Cells :
            ColumnSum(c[1], (c[2] + 1) * sampling - 1) = RInt(matrix[c[1]][c[2]])

\* a returned valid run with a non-zero straddle cell whose peak was
\* adjusted, a decay cell that lost lines and a band starting inside a sample
ColumnSumWitness ==
    /\ pc = "interp_done"
    /\ ValidInput
    /\ \E c \in Cells :
         /\ Regime(granularity, sampling, c[1], c[2]) = "straddle"
         /\ matrix[c[1]][c[2]] > 0
         /\ straddleAdjust(matrix, granularity, sampling, c[1], c[2])
    /\ \E c \in Cells :
         /\ Regime(granularity, sampling, c[1], c[2]) = "decay"
         /\ 0 < matrix[c[1]][c[2]]
         /\ matrix[c[1]][c[2]] < matrix[c[1]][c[2] - 1]
    /\ \E c \in Cells :
         /\ Regime(granularity, sampling, c[1], c[2]) = "growth_fill"
         /\ matrix[c[1]][c[2]] > 0

\* C2 as stated: for every valid input the aligned granularity x sampling
\* block of the daily matrix sums to matrix[y][x].
BlockSumReconstruction ==
    (pc = "interp_done" /\ ValidInput) =>
        \A c \in Cells : BlockSum(c[1], c[2]) = RInt(matrix[c[1]][c[2]])

\* C2 amended: for every valid input with sampling = 1 (a block is then a
\* single daily column) the aligned block sums to matrix[y][x].
BlockSumUnitSampling ==
    (pc = "interp_done" /\ ValidInput /\ sampling = 1) =>
        \A c \in Cells : BlockSum(c[1], c[2]) = RInt(matrix[c[1]][c[2]])

\* a returned valid run with sampling = 1 < granularity and a non-zero cell
\* in each of the growth, straddle and decay regimes
BlockSumWitness ==
    /\ pc = "interp_done"
    /\ ValidInput
    /\ sampling = 1
    /\ granularity > 1
    /\ \A r \in {"growth", "straddle", "decay"} :
         \E c \in Cells :
            /\ Regime(granularity, sampling, c[1], c[2]) = r
            /\ matrix[c[1]][c[2]] > 0

\* C3 as stated: whatever the matrix, and for every granularity > 0 and
\* sampling > 0, no divisor used for a cell is zero.
NoZeroDivisor ==
    (pc = "interp" /\ cy < Bands(matrix)) =>
        RZero \notin cellDivisors(matrix, granularity, sampling, cy, cx)

\* C4: the daily matrix has the shape (bands * granularity, samples *
\* sampling), and every entry of the block aligned with a future cell
\* (y * granularity > (x + 1) * sampling) is zero, whatever the matrix.
FutureBlocksZero ==
    /\ DOMAIN daily = Range(0, Bands(matrix) * granularity)
    /\ \A i \in DOMAIN daily : DOMAIN daily[i] = Range(0, Samples(matrix) * sampling)
    /\ \A c \in Cells :
         c[1] * granularity > (c[2] + 1) * sampling =>
            \A i \in BandRows(c[1]) : \A j \in SampleCols(c[2]) : daily[i][j] = RZero

\* a returned run with a future cell whose matrix entry is not zero, next to
\* cells of its band and of its sample that were filled
FutureBlocksWitness ==
    /\ pc = "interp_done"
    /\ \E c \in Cells :
         /\ c[1] * granularity > (c[2] + 1) * sampling
         /\ matrix[c[1]][c[2]] > 0
         /\ \E j \in DOMAIN daily[0] : daily[c[1] * granularity][j] # RZero
         /\ \E i \in DOMAIN daily : daily[i][c[2] * sampling] # RZero


(***************************************************************************)
(* fit_kaplan_meier as a state machine: one step per sample of the scan,   *)
(* then the lines after the loop.                                          *)
(***************************************************************************)
KMInit ==
    /\ matrix \in Matrices \cup {SurvivalScenario}
    /\ InterpIdle
    /\ LoadIdle
    /\ ServerIdle
    /\ T = kmStart(matrix).T
    /\ W = kmStart(matrix).W
    /\ entries = kmStart(matrix).entries
    /\ dead = kmStart(matrix).dead
    /\ E = <<>>
    /\ ki = 1
    /\ kmf = "unset"
    /\ pc = "km_scan"

KMState == [T |-> T, W |-> W, entries |-> entries, dead |-> dead]

KMScan ==
    /\ pc = "km_scan"
    /\ ki < Samples(matrix)
    /\ T' = kmScan(KMState, matrix, ki).T
    /\ W' = kmScan(KMState, matrix, ki).W
    /\ entries' = kmScan(KMState, matrix, ki).entries
    /\ dead' = kmScan(KMState, matrix, ki).dead
    /\ ki' = ki + 1
    /\ UNCHANGED <<serverVars, pc, E, kmf, interpVars, loadVars>>

KMFinish ==
    /\ pc = "km_scan"
    /\ ki >= Samples(matrix)
    /\ T' = kmFinish(KMState, matrix).T
    /\ W' = kmFinish(KMState, matrix).W
    /\ E' = kmFinish(KMState, matrix).E
    /\ kmf' = kmFinish(KMState, matrix).kmf
    /\ pc' = "km_done"
    /\ matrix' = kmMatrix(matrix)
    /\ UNCHANGED <<serverVars, entries, dead, ki, granularity, sampling, daily, cy, cx,
                   loadVars>>

KMNext == KMScan \/ KMFinish

SpecKM == KMInit /\ [][KMNext]_vars


(***************************************************************************)
(* Claims about fit_kaplan_meier (checked under SpecKM).                   *)
(***************************************************************************)
\* the latest sample in 1 .. x at which band y rose, 0 if it never did
LastRise(y, x) ==
    LET rises == {k \in 1 .. x : matrix[y][k] > matrix[y][k - 1]}
    IN  IF rises = {} THEN 0 ELSE CHOOSE k \in rises : \A n \in rises : n <= k

\* the bands that drop at sample x, in ascending order
Drops(x) == Ascending({y \in DOMAIN matrix : matrix[y][x] < matrix[y][x - 1]})

\* the death events of samples x .. samples-1, as <<duration, weight>>,
\* sample by sample and band by band
RECURSIVE DeathEventsFrom(_)
DeathEventsFrom(x) ==
    IF x >= Samples(matrix) THEN <<>>
    ELSE [k \in 1 .. Len(Drops(x)) |->
            <<x - LastRise(Drops(x)[k], x),
              matrix[Drops(x)[k]][x - 1] - matrix[Drops(x)[k]][x]>>]
         \o DeathEventsFrom(x + 1)

\* C9 as stated: in the arrays handed to the estimator every drop of a band
\* at a sample x >= 1 is one observation with T = x - entries[band], W = the
\* size of the drop and E = true, also when no band is censored.
DeathEventsFlagged ==
    pc = "km_done" =>
        /\ Len(T) >= Len(DeathEventsFrom(1))
        /\ \A k \in 1 .. Len(DeathEventsFrom(1)) :
              /\ T[k] = DeathEventsFrom(1)[k][1]
              /\ W[k] = DeathEventsFrom(1)[k][2]
              /\ E[k] = TRUE

EnteredAt(y, x) == y = 0 \/ LastRise(y, x) > 0

\* band y had at least one recorded entry
HasEntry(y) == LastRise(y, Samples(matrix) - 1) > 0

\* band y hit zero at a sample at which it was entered
HitZeroEntered(y) ==
    \E x \in 1 .. (Samples(matrix) - 1) : matrix[y][x] = 0 /\ EnteredAt(y, x)

\* the bands with an entry (band 0 with or without one) that never hit zero
\* while entered, in ascending order
CensoredBands ==
    Ascending({y \in DOMAIN matrix :
                  (HasEntry(y) \/ y = 0) /\ ~HitZeroEntered(y)})

\* C11: the observations after the death events are the censored ones, one
\* per band that never hit zero while entered, in band order; every band with
\* a recorded entry that never hit zero while entered is among them exactly
\* once, with T = samples - entries[band], W = its value in the last sample
\* and E = false; no band that hit zero while entered is among them.
CensoredSurvivors ==
    pc = "km_done" =>
        LET nd == Len(DeathEventsFrom(1))
            cb == CensoredBands
        IN  /\ Len(T) = nd + Len(cb)
            /\ Len(W) = Len(T)
            /\ Len(E) = Len(T)
            /\ \A k \in 1 .. Len(cb) :
                  /\ T[nd + k] = Samples(matrix) - entries[cb[k]]
                  /\ entries[cb[k]] = LastRise(cb[k], Samples(matrix) - 1)
                  /\ W[nd + k] = matrix[cb[k]][Samples(matrix) - 1]
                  /\ E[nd + k] = FALSE
            /\ \A y \in DOMAIN matrix :
                  /\ (HasEntry(y) /\ ~HitZeroEntered(y)) =>
                        Cardinality({k \in 1 .. Len(cb) : cb[k] = y}) = 1
                  /\ HitZeroEntered(y) => \A k \in 1 .. Len(cb) : cb[k] # y

\* the extractor has finished on a matrix with a band other than band 0 that
\* rose and never hit zero afterwards, and a band that hit zero and rose again
CensoredSurvivorsWitness ==
    /\ pc = "km_done"
    /\ \E y \in DOMAIN matrix : y > 0 /\ HasEntry(y) /\ ~HitZeroEntered(y)
    /\ \E y \in DOMAIN matrix : HasEntry(y) /\ HitZeroEntered(y)
    /\ Len(DeathEventsFrom(1)) > 0


(***************************************************************************)
(* load_burndown as a state machine.  A recursive call (the fallback) is   *)
(* the last thing its caller does and its result is the caller's result,   *)
(* so the nested calls run one after the other on the same variables;      *)
(* calls keeps the resample argument of each.                              *)
(***************************************************************************)
LoadShapes ==
    {p \in (1 .. MaxLoadCells) \X (1 .. MaxLoadCells) : p[1] * p[2] <= MaxLoadCells}

LoadMatrices ==
    UNION {[Range(0, p[1]) -> [Range(0, p[2]) -> 0 .. MaxVal]] : p \in LoadShapes}

\* (granularity, sampling) of the header: hercules keeps sampling <=
\* granularity; the last two violate the assertions
LoadTickPairs == {<<1, 1>>, <<2, 1>>, <<3, 2>>, <<0, 1>>, <<1, 0>>}

\* start: Sunday 2019-11-03, Monday 2019-11-11, 2019-11-28, 2019-12-28 and
\* 2019-12-31
StartDays == {2, 10, 27, 57, 60}

\* the resample argument: the three modes of the cascade, a weekly offset
\* alias of pandas, and the two names of the raw mode
Requests == {"year", "month", "day", "W", "raw", "no"}

LoadInit ==
    /\ matrix \in LoadMatrices
    /\ \E p \in LoadTickPairs : granularity = p[1] /\ sampling = p[2]
    /\ start \in StartDays
    /\ \E k \in 0 .. MaxLastGap :
          last_days = IF Samples(matrix) * sampling - k > 0
                      THEN Samples(matrix) * sampling - k ELSE 0
    /\ resample \in Requests
    /\ report_survival = TRUE
    /\ calls = <<resample>>
    /\ finish = 0
    /\ periods = 0
    /\ date_granularity_sampling = <<>>
    /\ result = <<>>
    /\ events = <<>>
    /\ daily = <<>>
    /\ cy = 0
    /\ cx = 0
    /\ KMIdle
    /\ ServerIdle
    /\ pc = "load_entry"

\* lines 308-312: the assertions on the header
LoadAssert ==
    /\ pc = "load_entry"
    /\ pc' = IF headerValid(sampling, granularity) THEN "load_survival"
             ELSE "assertion_error"
    /\ UNCHANGED <<serverVars, interpVars, kmVars, loadVars>>

\* lines 313-317: the survival fit and its print, then finish
LoadSurvival ==
    /\ pc = "load_survival"
    /\ IF report_survival
       THEN /\ T' = fit_kaplan_meier(matrix).T
            /\ W' = fit_kaplan_meier(matrix).W
            /\ E' = fit_kaplan_meier(matrix).E
            /\ kmf' = fit_kaplan_meier(matrix).kmf
            /\ events' = events \o <<"fit_kaplan_meier">> \o
                  (IF fit_kaplan_meier(matrix).kmf # "None"
                   THEN <<"print_survival_function">> ELSE <<>>)
            /\ matrix' = kmMatrix(matrix)
       ELSE UNCHANGED <<T, W, E, kmf, events, matrix>>
    /\ finish' = start + Samples(matrix) * sampling
    /\ pc' = "load_mode"
    /\ UNCHANGED <<serverVars, granularity, sampling, daily, cy, cx, entries, dead, ki,
                   start, last_days, resample,
                   report_survival, periods, date_granularity_sampling, result,
                   calls>>

\* lines 378-395: resample is "no" or "raw"
LoadRaw ==
    /\ pc = "load_mode"
    /\ resample \in {"no", "raw"}
    /\ result' = <<[matrix |-> matrix,
                    date_range_sampling |-> rawDates(matrix, start, sampling),
                    labels |-> rawLabels(matrix, start, granularity),
                    granularity |-> granularity,
                    sampling |-> sampling,
                    resample |-> "M"]>>
    /\ resample' = "M"
    /\ pc' = "load_done"
    /\ UNCHANGED <<serverVars, interpVars, kmVars, start, last_days, report_survival, finish,
                   periods, date_granularity_sampling, calls, events>>

\* lines 319-334: the print, the interpolation, the rows from the last
\* commit on zeroed, the alias resolved, the boundaries started
LoadInterpolate ==
    /\ pc = "load_mode"
    /\ resample \notin {"no", "raw"}
    /\ ~interpolateDividesByZero(matrix, granularity, sampling)
    /\ events' = events \o <<"print resampling to " \o resample,
                             "interpolate_burndown_matrix">>
    /\ daily' = zeroLast(interpolate_burndown_matrix(matrix, granularity, sampling),
                         last_days)
    /\ resample' = aliases(resample)
    /\ periods' = 0
    /\ date_granularity_sampling' = <<start>>
    /\ matrix' = interpMatrix(matrix, granularity, sampling)
    /\ pc' = "load_loop"
    /\ UNCHANGED <<serverVars, granularity, sampling, cy, cx, kmVars, start, last_days,
                   report_survival, finish, result, calls>>

\* date_granularity_sampling[-1]
LastBoundary == date_granularity_sampling[Len(date_granularity_sampling)]

\* lines 335-339: one iteration of the while loop
LoadBoundary ==
    /\ pc = "load_loop"
    /\ LastBoundary < finish
    /\ periods' = periods + 1
    /\ date_granularity_sampling' = date_range(start, periods + 1, resample)
    /\ UNCHANGED <<serverVars, pc, interpVars, kmVars, start, last_days, resample,
                   report_survival, finish, result, calls, events>>

\* fallbackReportSurvival with the caller's flag passed on to the retry
fallbackReportSurvivalKept(flag) == flag

\* the report_survival argument of the recursive call: report_survival=False
fallbackReportSurvival(flag) == FALSE

\* lines 340-350: the first boundary is after finish and there is a finer
\* mode: the recursive call
LoadFallback ==
    /\ pc = "load_loop"
    /\ ~(LastBoundary < finish)
    /\ date_granularity_sampling[1] > finish
    /\ finer(resample) # ""
    /\ events' = events \o <<"print too loose resampling, trying by " \o finer(resample)>>
    /\ calls' = Append(calls, finer(resample))
    /\ resample' = finer(resample)
    /\ report_survival' = fallbackReportSurvival(report_survival)
    /\ daily' = <<>>
    /\ finish' = 0
    /\ periods' = 0
    /\ date_granularity_sampling' = <<>>
    /\ pc' = "load_entry"
    /\ UNCHANGED <<serverVars, matrix, granularity, sampling, cy, cx, kmVars, start, last_days,
                   result>>

\* lines 351-352: raise ValueError("Too loose resampling")
LoadRaise ==
    /\ pc = "load_loop"
    /\ ~(LastBoundary < finish)
    /\ date_granularity_sampling[1] > finish
    /\ finer(resample) = ""
    /\ pc' = "value_error"
    /\ UNCHANGED <<serverVars, interpVars, kmVars, loadVars>>

\* lines 353-370 with an empty date_range_sampling: the inner loop binds
\* neither j nor sdt, and line 370 raises UnboundLocalError
LoadUnbound ==
    /\ pc = "load_loop"
    /\ ~(LastBoundary < finish)
    /\ ~(date_granularity_sampling[1] > finish)
    /\ finish - date_granularity_sampling[1] <= 0
    /\ pc' = "unbound_local_error"
    /\ UNCHANGED <<serverVars, interpVars, kmVars, loadVars>>

\* lines 353-377 and 395: the new matrix, the labels, the return
LoadFill ==
    /\ pc = "load_loop"
    /\ ~(LastBoundary < finish)
    /\ ~(date_granularity_sampling[1] > finish)
    /\ finish - date_granularity_sampling[1] > 0
    /\ result' = <<[matrix |-> resampled(daily, date_granularity_sampling, start, finish),
                    date_range_sampling |->
                        date_range(date_granularity_sampling[1],
                                   finish - date_granularity_sampling[1], "D"),
                    labels |-> labelsOf(resample, date_granularity_sampling),
                    granularity |-> granularity,
                    sampling |-> sampling,
                    resample |-> resample]>>
    /\ pc' = "load_done"
    /\ UNCHANGED <<serverVars, interpVars, kmVars, start, last_days, resample, report_survival,
                   finish, periods, date_granularity_sampling, calls, events>>

LoadNext ==
    \/ LoadAssert
    \/ LoadSurvival
    \/ LoadRaw
    \/ LoadInterpolate
    \/ LoadBoundary
    \/ LoadFallback
    \/ LoadRaise
    \/ LoadUnbound
    \/ LoadFill

SpecLoad == LoadInit /\ [][LoadNext]_vars

(***************************************************************************)
(* Claims about load_burndown (checked under SpecLoad).                    *)
(***************************************************************************)
\* the while loop has ended and the first boundary is after finish
TooCoarse ==
    /\ pc = "load_loop"
    /\ ~(LastBoundary < finish)
    /\ date_granularity_sampling[1] > finish

\* the call has ended: a tuple returned or an error raised
LoadEnded ==
    pc \in {"load_done", "assertion_error", "value_error", "unbound_local_error"}

\* how the call ended, in the form of loadOutcome
Outcome == [error |-> IF pc = "load_done" THEN "" ELSE pc, result |-> result]

PreconditionFailure ==
    (sampling <= 0 \/ granularity <= 0) =>
        /\ pc \in {"load_entry", "assertion_error"}
        /\ kmf = "unset"
        /\ T = <<>>
        /\ daily = <<>>
        /\ events = <<>>
        /\ result = <<>>

\* the assertion has failed on granularity = 0
PreconditionWitness == pc = "assertion_error" /\ granularity = 0 /\ sampling > 0

\* the sum over the new bands of column k of the matrix returned
NewColumnSum(k) ==
    RSum([i \in DOMAIN result[1].matrix |-> result[1].matrix[i][k]],
         DOMAIN result[1].matrix)

\* the sum over the bands of sample x of the original matrix
OldColumnSum(x) ==
    RSum([y \in DOMAIN matrix |-> RInt(matrix[y][x])], DOMAIN matrix)

\* the column of the matrix returned that has the date of the last tick of
\* sample x (it is a column only if it is not negative)
NewColumnOf(x) ==
    (x + 1) * sampling - 1 - (date_granularity_sampling[1] - start)

\* C8 as stated: for every valid input and every resampling mode, every
\* column of the matrix returned sums to the sum of the original matrix at
\* the sample that ends on the column's date, the last sample included.
MassConservation ==
    (pc = "load_done" /\ calls[1] \notin {"no", "raw"} /\ ValidInput) =>
        \A x \in Range(0, Samples(matrix)) :
            NewColumnOf(x) >= 0 => NewColumnSum(NewColumnOf(x)) = OldColumnSum(x)

\* C8 amended: the same for every column that no zeroed row reaches: no
\* daily row at or after the last-commit offset is at or before the column.
MassConservationBeforeLast ==
    (pc = "load_done" /\ calls[1] \notin {"no", "raw"} /\ ValidInput) =>
        \A x \in Range(0, Samples(matrix)) :
            (/\ NewColumnOf(x) >= 0
             /\ \A r \in DOMAIN daily : r >= last_days => r > (x + 1) * sampling - 1)
            => NewColumnSum(NewColumnOf(x)) = OldColumnSum(x)

\* a returned valid run in which rows were zeroed, with a column before the
\* last-commit offset whose lines are spread over two new bands
MassConservationWitness ==
    /\ pc = "load_done"
    /\ calls[1] \notin {"no", "raw"}
    /\ ValidInput
    /\ \E r \in DOMAIN daily : r >= last_days
    /\ \E x \in Range(0, Samples(matrix)) :
          /\ NewColumnOf(x) >= 0
          /\ (x + 1) * sampling <= last_days
          /\ \E i1, i2 \in DOMAIN result[1].matrix :
                /\ i1 # i2
                /\ result[1].matrix[i1][NewColumnOf(x)] # RZero
                /\ result[1].matrix[i2][NewColumnOf(x)] # RZero

\* something was printed or called during the call
InEvents(e) == \E k \in DOMAIN events : events[k] = e

\* C12: once the survival step of load_burndown has run on a matrix that
\* gives no observation (T empty), fit_kaplan_meier has returned None
\* without fitting the estimator, the survival function is not printed, and
\* the call goes on: it ends as the resampling of that input ends.  With an
\* observation the estimator is fitted and the survival function printed.
DegenerateSurvival ==
    (pc \notin {"load_entry", "load_survival", "assertion_error"}) =>
        /\ InEvents("fit_kaplan_meier")
        /\ (T = <<>>) <=> (kmf = "None")
        /\ (T # <<>>) <=> (kmf = "fitted")
        /\ (kmf = "None") <=> ~InEvents("print_survival_function")
        /\ (T = <<>> /\ LoadEnded) =>
              Outcome = loadOutcome(matrix, granularity, sampling, start,
                                    last_days, calls[1])

\* a call on a matrix without observations has returned a resampled matrix
DegenerateSurvivalWitness ==
    /\ pc = "load_done"
    /\ T = <<>>
    /\ kmf = "None"
    /\ calls[1] \in {"year", "month", "day"}
    /\ InEvents("interpolate_burndown_matrix")
    /\ Samples(matrix) >= 2

\* C13: a call with resample "raw" or "no" that returns has not called the
\* interpolator (no daily matrix exists), returns the input matrix itself,
\* one label per band made of the dates of start + i * granularity and
\* start + (i + 1) * granularity ticks, and a date axis of `samples` entries.
RawMode ==
    (pc = "load_done" /\ calls[1] \in {"no", "raw"}) =>
        /\ ~InEvents("interpolate_burndown_matrix")
        /\ daily = <<>>
        /\ calls = <<calls[1]>>
        /\ result[1].matrix = matrix
        /\ Len(result[1].labels) = Bands(matrix)
        /\ \A i \in 1 .. Bands(matrix) :
              /\ result[1].labels[i][2] = DateOf(start + (i - 1) * granularity)
              /\ result[1].labels[i][3] = DateOf(start + i * granularity)
        /\ Len(result[1].date_range_sampling) = Samples(matrix)

\* a raw call has returned a matrix of three bands and one sample with lines
\* in it, one of whose labels crosses the end of the year
RawModeWitness ==
    /\ pc = "load_done"
    /\ calls[1] = "no"
    /\ Bands(matrix) = 3
    /\ matrix[2][0] > 0
    /\ \E i \in 1 .. 3 : result[1].labels[i][2][1] # result[1].labels[i][3][1]

\* C14: a resampling call that returns hands back, as its seventh element,
\* the mode of the attempt that succeeded (the last call of the cascade, its
\* alias resolved); the labels are years iff that mode is the yearly one,
\* "<Year> <Month>" iff it is the monthly one, dates otherwise; after a year
\* request that fell back the mode returned is not the yearly one.
EffectiveMode ==
    (pc = "load_done" /\ calls[1] \notin {"no", "raw"}) =>
        /\ result[1].resample = aliases(calls[Len(calls)])
        /\ Len(result[1].labels) = Len(date_granularity_sampling)
        /\ Len(result[1].labels) >= 1
        /\ \A i \in 1 .. Len(result[1].labels) :
              /\ (result[1].labels[i][1] = "%Y") <=> (result[1].resample = "A")
              /\ (result[1].labels[i][1] = "%Y %B") <=> (result[1].resample = "M")
              /\ (result[1].labels[i][1] = "date") <=>
                    (result[1].resample \notin {"A", "M"})
        /\ (calls[1] = "year" /\ Len(calls) > 1) => result[1].resample # "A"

\* a year request has fallen back and returned monthly labels
EffectiveModeWitness ==
    /\ pc = "load_done"
    /\ calls = <<"year", "month">>
    /\ result[1].resample = "M"
    /\ result[1].labels[1][1] = "%Y %B"

\* the interpolator has returned on the boundary scenario: [[5, 3, 3, 3]],
\* granularity 2, sampling 1
BoundaryDone ==
    /\ pc = "interp_done"
    /\ matrix = BoundaryScenario
    /\ granularity = 2
    /\ sampling = 1

\* C15 as stated: in the boundary scenario the cell of sample 1 is in the
\* pure decay regime, and the first daily row decreases strictly from sample
\* 0 to sample 1, where it is exactly 3.
BoundaryPureDecay ==
    BoundaryDone =>
        /\ Regime(granularity, sampling, 0, 1) = "decay"
        /\ RLess(daily[0][1], daily[0][0])
        /\ daily[0][1] = RInt(3)

\* C15 amended: in the boundary scenario the cell of sample 1 is in the
\* growth regime (the band ends with the sample), sample 2 is the straddle
\* and sample 3 the pure decay; the first daily row is 5 at every sample, the
\* second row is 0 at sample 0 and -2 from sample 1 on, so that the two rows
\* of the band add up to 5, 3, 3, 3.
BoundaryGrowth ==
    BoundaryDone =>
        /\ Regime(granularity, sampling, 0, 1) = "growth"
        /\ Regime(granularity, sampling, 0, 2) = "straddle"
        /\ Regime(granularity, sampling, 0, 3) = "decay"
        /\ \A j \in 0 .. 3 : daily[0][j] = RInt(5)
        /\ daily[1][0] = RZero
        /\ \A j \in 1 .. 3 : daily[1][j] = RInt(-2)
        /\ \A j \in 0 .. 3 : ColumnSum(0, j) = RInt(matrix[0][j])

\* the interpolator has returned on the boundary scenario with the drop of
\* sample 1 written to the second row
BoundaryWitness == BoundaryDone /\ RLess(daily[1][1], RZero) /\ cy = 1

RaisedOnlyAfterDay ==
    pc = "value_error" => (calls[Len(calls)] = "day" /\ resample = "D")

\* C17 amended: a request of year, month or day never ends in the
\* ValueError (a too coarse attempt is a yearly or monthly one, which is
\* retried; a day attempt is never too coarse); a request of another offset
\* alias whose first boundary is after finish raises at once, in the first
\* call, and is never retried.
RaisedAtOnceForOtherAlias ==
    /\ pc = "value_error" =>
          /\ calls = <<resample>>
          /\ aliases(resample) \notin {"A", "M", "D"}
          /\ date_granularity_sampling[1] > finish
    /\ (TooCoarse /\ calls[1] \in {"year", "month", "day"}) =>
          resample \in {"A", "M"}
    /\ aliases(calls[1]) \notin {"A", "M", "D"} => Len(calls) = 1

\* a weekly request has raised: the first Sunday is after finish
RaisedAtOnceWitness ==
    /\ pc = "value_error"
    /\ calls = <<"W">>
    /\ periods = 1
    /\ date_granularity_sampling[1] > finish

\* how coarse a mode is: the modes of the cascade in order, any other value
\* above them
Coarseness(r) ==
    CASE aliases(r) = "D" -> 1
      [] aliases(r) = "M" -> 2
      [] aliases(r) = "A" -> 3
      [] OTHER -> 4

\* the while loop of the current call has ended
LoopEnded ==
    \/ pc = "load_loop" /\ ~(LastBoundary < finish)
    \/ pc \in {"load_done", "value_error", "unbound_local_error"}
         /\ calls[1] \notin {"no", "raw"}

\* what C18 says of every state: the loop has stopped at the first number of
\* periods whose last boundary is at or after finish, and the calls nest at
\* most two deep, each for a strictly finer mode
LoopAndNesting ==
    /\ LoopEnded =>
          /\ periods >= 1
          /\ Len(date_granularity_sampling) = periods
          /\ date_granularity_sampling[periods] >= finish
          /\ \A k \in 1 .. (periods - 1) : date_granularity_sampling[k] < finish
    /\ Len(calls) <= 3
    /\ \A k \in 1 .. (Len(calls) - 1) :
          Coarseness(calls[k + 1]) < Coarseness(calls[k])

\* the most boundaries the loop can need: one per day of the data, start
\* and finish included
LoopBound == Samples(matrix) * sampling + 1

\* a bound on the steps the current call has left before it ends or recurses
StepsLeftInCall ==
    CASE pc = "load_entry" -> LoopBound + 4
      [] pc = "load_survival" -> LoopBound + 3
      [] pc = "load_mode" -> LoopBound + 2
      [] pc = "load_loop" -> LoopBound + 1 - periods
      [] OTHER -> 0

\* a bound on the steps left before load_burndown returns or raises: the
\* calls still possible (one per mode not coarser than the current one) and
\* the steps of the current call
StepsLeft ==
    IF LoadEnded THEN 0
    ELSE Coarseness(resample) * (LoopBound + 5) + StepsLeftInCall

\* a call that has not ended has a next step: the branches of lines 318 and
\* 335-353 cover every case
HasNextStep ==
    \/ pc \in {"load_entry", "load_survival", "load_loop"}
    \/ pc = "load_mode"
         /\ (resample \in {"no", "raw"}
             \/ ~interpolateDividesByZero(matrix, granularity, sampling))

\* C18: the boundary-growing loop stops at the first number of periods whose
\* last boundary is at or after finish, the fallback nests at most two
\* levels deep, each call for a strictly finer mode, and every call returns
\* or raises: a call that has not ended has a next step, and every step
\* takes the call closer to its end by a measure that cannot go below 0.
LoadTerminates ==
    /\ []LoopAndNesting
    /\ [](StepsLeft >= 0 /\ (LoadEnded \/ (HasNextStep /\ StepsLeft > 0)))
    /\ [][StepsLeft' < StepsLeft]_vars

\* a year request has gone through two nested calls and the loop of the
\* last one has grown several boundaries before it returned
LoadTerminatesWitness ==
    /\ pc = "load_done"
    /\ Len(calls) = 3
    /\ periods >= 3

\* the cells of the straddle regime whose next sample, if there is one, does
\* not exceed the cell's own value
StraddleCellsNotRising ==
    {c \in Cells :
        /\ Regime(granularity, sampling, c[1], c[2]) = "straddle"
        /\ c[2] < Samples(matrix) - 1 =>
              matrix[c[1]][c[2] + 1] <= matrix[c[1]][c[2]]}

\* C19: with granularity >= sampling, in every straddle cell whose next
\* sample does not exceed v2 = matrix[y][x], the peak handed to grow and
\* decay is not smaller than v2, and when the peak is positive the ratio
\* k = v2 / peak of decay is at most 1.
PeakNotBelowValue ==
    (pc \in {"interp", "interp_done"} /\ granularity >= sampling) =>
        \A c \in StraddleCellsNotRising :
            LET peak == straddlePeak(matrix, granularity, sampling, c[1], c[2])
                v2 == RInt(matrix[c[1]][c[2]])
            IN  /\ ~RLess(peak, v2)
                /\ RLess(RZero, peak) => ~RLess(ROne, RDiv(v2, peak))

\* the interpolator has returned on a matrix with a straddle cell whose
\* extrapolated peak was below its value and was adjusted from the next
\* sample, to a peak above the value
PeakNotBelowValueWitness ==
    /\ pc = "interp_done"
    /\ granularity >= sampling
    /\ \E c \in StraddleCellsNotRising :
          /\ c[2] < Samples(matrix) - 1
          /\ straddleAdjust(matrix, granularity, sampling, c[1], c[2])
          /\ RLess(RInt(matrix[c[1]][c[2]]),
                   straddlePeak(matrix, granularity, sampling, c[1], c[2]))
          /\ \E j \in DOMAIN daily[0] : daily[c[1] * granularity][j] # RZero

\* the cells the double loop has been through
CellsDone == {c \in Cells : c[1] < cy \/ (c[1] = cy /\ c[2] < cx)}

\* C20 as stated: in every straddle cell the loop has been through, v1 was
\* matrix[y][x - 1], or 0 for x = 0, and previous was matrix[y][x - 2] or 0,
\* and 0 for x <= 1: never a value from another part of the row.
PrecedingValuesOrZero ==
    pc \in {"interp", "interp_done", "zero_division"} =>
        \A c \in CellsDone :
            Regime(granularity, sampling, c[1], c[2]) = "straddle" =>
                /\ straddleV1(matrix, c[1], c[2]) =
                      (IF c[2] = 0 THEN 0 ELSE matrix[c[1]][c[2] - 1])
                /\ straddlePrevious(matrix, granularity, sampling, c[1], c[2])
                      \in {0} \cup (IF c[2] > 1 THEN {matrix[c[1]][c[2] - 2]} ELSE {})

\* the step is the body of the double loop for cell (cy, cx), which is not a
\* future cell
NonFutureCellStep ==
    /\ pc = "interp"
    /\ cy < Bands(matrix)
    /\ <<cy', cx'>> = NextCell
    /\ ~(cy * granularity > (cx + 1) * sampling)

ReentryResetsClock ==
    [][(pc = "km_scan" /\ ki' = ki + 1) =>
          /\ \A y \in DOMAIN matrix :
                /\ entries'[y] # entries[y] =>
                      (entries'[y] = ki /\ matrix[y][ki] > matrix[y][ki - 1])
                /\ matrix[y][ki] > matrix[y][ki - 1] => entries'[y] = ki
          /\ Len(T') = Len(T) + Len(Drops(ki))
          /\ \A k \in 1 .. Len(T) : T'[k] = T[k]
          /\ \A k \in 1 .. Len(Drops(ki)) :
                T'[Len(T) + k] = ki - LastRise(Drops(ki)[k], ki - 1)
      ]_vars

\* the extractor has finished on a matrix with a band that rose, rose again
\* at a later sample and dropped after that
ReentryWitness ==
    /\ pc = "km_done"
    /\ \E y \in DOMAIN matrix : \E x \in 3 .. (Samples(matrix) - 1) :
          /\ matrix[y][x] < matrix[y][x - 1]
          /\ LastRise(y, x - 1) >= 2
          /\ \E x0 \in 1 .. (LastRise(y, x - 1) - 1) : matrix[y][x0] > matrix[y][x0 - 1]
          /\ \E k \in 1 .. Len(T) : T[k] = x - LastRise(y, x - 1)

\* how many times e was called or printed during the call
CountEvents(e) == Cardinality({k \in DOMAIN events : events[k] = e})

\* C23: in a top-level call with report_survival true the extractor is run
\* exactly once, in the first call and before any interpolation, and the
\* survival function is printed at most once (once when there is a fit);
\* every recursive call has report_survival false and runs neither.
SurvivalOnce ==
    /\ CountEvents("fit_kaplan_meier") <= 1
    /\ CountEvents("print_survival_function") <= 1
    /\ Len(calls) > 1 => (~report_survival /\ CountEvents("fit_kaplan_meier") = 1)
    /\ pc \notin {"load_entry", "load_survival", "assertion_error"} =>
          /\ CountEvents("fit_kaplan_meier") = 1
          /\ events[1] = "fit_kaplan_meier"
          /\ CountEvents("print_survival_function") = (IF kmf = "fitted" THEN 1 ELSE 0)
    /\ \A k \in DOMAIN events :
          events[k] = "print_survival_function" => (k = 2 /\ kmf = "fitted")

\* a call that fell back twice has returned, with the survival function
\* fitted and printed once and the interpolator run in each of the calls
SurvivalOnceWitness ==
    /\ pc = "load_done"
    /\ Len(calls) = 3
    /\ CountEvents("fit_kaplan_meier") = 1
    /\ CountEvents("print_survival_function") = 1
    /\ CountEvents("interpolate_burndown_matrix") = 3

\* the daily rows [istart, ifinish) of new band i (counted from 0)
NewBandRows(i) ==
    Range(IF i > 0 THEN date_granularity_sampling[i] - start ELSE 0,
          date_granularity_sampling[i + 1] - start)

\* the new bands of the matrix returned
NewBands == Range(0, Len(date_granularity_sampling))

\* C24: in the matrix a resampling call returns, the row ranges of the new
\* bands are disjoint and cover every daily row below samples*sampling, and
\* the value of new band i at output column k is the sum of the daily rows
\* of the band's range at the daily column of the same date, and zero for a
\* column dated before the band's first row.
BandAggregation ==
    (pc = "load_done" /\ calls[1] \notin {"no", "raw"}) =>
        LET first == date_granularity_sampling[1] - start
        IN  /\ DOMAIN result[1].matrix = NewBands
            /\ \A i1, i2 \in NewBands :
                  i1 # i2 => NewBandRows(i1) \cap NewBandRows(i2) = {}
            /\ \A r \in Range(0, Samples(matrix) * sampling) :
                  Cardinality({i \in NewBands : r \in NewBandRows(i)}) = 1
            /\ \A i \in NewBands :
                  /\ DOMAIN result[1].matrix[i] = Range(0, finish - start - first)
                  /\ \A k \in DOMAIN result[1].matrix[i] :
                        result[1].matrix[i][k] =
                           IF \A r \in NewBandRows(i) : first + k < r
                           THEN RZero
                           ELSE RSum([r \in NewBandRows(i) \cap DOMAIN daily |->
                                         daily[r][first + k]],
                                     NewBandRows(i) \cap DOMAIN daily)

\* a resampling call has returned two new bands with lines in them, one of
\* which starts after the first output column
BandAggregationWitness ==
    /\ pc = "load_done"
    /\ calls[1] \notin {"no", "raw"}
    /\ \E i1, i2 \in NewBands :
          /\ i1 # i2
          /\ \E k \in DOMAIN result[1].matrix[i1] : result[1].matrix[i1][k] # RZero
          /\ \E k \in DOMAIN result[1].matrix[i2] : result[1].matrix[i2][k] # RZero
          /\ NewBandRows(i2) # {}
          /\ \A r \in NewBandRows(i2) : date_granularity_sampling[1] - start < r

\* C25: the body of the loop for cell (cy, cx) changes daily only in rows
\* [cy*granularity, (cy+1)*granularity) and columns [cx*sampling,
\* (cx+1)*sampling), and reads daily only there and in column cx*sampling-1
\* of the same rows, never at a negative column.
CellFrame ==
    [][(pc = "interp" /\ cy < Bands(matrix) /\ <<cy', cx'>> = NextCell) =>
          /\ DOMAIN daily' = DOMAIN daily
          /\ \A i \in DOMAIN daily : \A j \in DOMAIN daily[i] :
                daily'[i][j] # daily[i][j] =>
                   (i \in BandRows(cy) /\ j \in SampleCols(cx))
          /\ \A rd \in cellReads(matrix, granularity, sampling, cy, cx) :
                /\ rd[2] >= 0
                /\ rd[1] \in BandRows(cy) \cap DOMAIN daily
                /\ rd[2] \in SampleCols(cx) \/ rd[2] = cx * sampling - 1
      ]_vars

\* the interpolator has returned on a matrix with a band other than the
\* first whose straddle cell read the previous column in the copy loop of
\* grow and in decay
CellFrameWitness ==
    /\ pc = "interp_done"
    /\ \E c \in Cells :
          /\ c[1] > 0
          /\ Regime(granularity, sampling, c[1], c[2]) = "straddle"
          /\ \E rd \in growReads(granularity, sampling, c[1], c[2],
                                 (c[1] + 1) * granularity) :
                rd[2] = c[2] * sampling - 1
          /\ \E rd \in cellReads(matrix, granularity, sampling, c[1], c[2]) :
                rd[2] = (c[1] + 1) * granularity - 1
          /\ \E j \in SampleCols(c[2]) : daily[c[1] * granularity][j] # RZero

\* C27: T and W have the same length at every step of the extractor, and T,
\* E and W have the same length when it ends; every duration is an integer
\* from 1 to the number of samples; every weight appended by the scan (a
\* death) is strictly positive, and so is every weight flagged as a death
\* in E.
ObservationArrays ==
    /\ pc \in {"km_scan", "km_done"} =>
          /\ Len(T) = Len(W)
          /\ \A k \in DOMAIN T : T[k] \in 1 .. Samples(matrix)
    /\ pc = "km_scan" => \A k \in DOMAIN W : W[k] > 0
    /\ pc = "km_done" =>
          /\ Len(E) = Len(T)
          /\ \A k \in DOMAIN W :
                (E[k] \/ k <= Len(W) - Cardinality(kmSurvivors(KMState, matrix)))
                   => W[k] > 0

\* the extractor has ended with a death, a censored survivor, and a
\* duration equal to the number of samples
ObservationArraysWitness ==
    /\ pc = "km_done"
    /\ \E k \in DOMAIN E : E[k]
    /\ \E k \in DOMAIN E : ~E[k] /\ T[k] = Samples(matrix)
    /\ \E k \in DOMAIN T : E[k] /\ T[k] > 1

\* C26: in every state of the interpolator, daily[i][j] = 0 for all i > j:
\* lines written on day i are not counted on an earlier day j.
DailyCausal ==
    pc \in {"interp", "interp_done", "zero_division"} =>
       \A i \in DOMAIN daily : \A j \in DOMAIN daily[i] :
          i > j => daily[i][j] = RZero

\* the interpolator has returned a daily matrix with entries below the
\* diagonal, a non-zero entry on the diagonal from a band that starts
\* inside a sample window, and a non-zero entry above the diagonal
DailyCausalWitness ==
    /\ pc = "interp_done"
    /\ \E i \in DOMAIN daily : \E j \in DOMAIN daily[i] : i > j
    /\ \E c \in Cells :
          /\ Regime(granularity, sampling, c[1], c[2]) = "growth_fill"
          /\ daily[c[1] * granularity][c[1] * granularity] # RZero
    /\ \E i \in DOMAIN daily : \E j \in DOMAIN daily[i] :
          i < j /\ daily[i][j] # RZero

\* C28: for every valid header, matrix and request, the call of
\* load_burndown of labours/modes/burndown.py ends as the copy in
\* labours/burndown.py does: the same tuple returned or the same error
\* raised.
CopiesEquivalent ==
    (LoadEnded /\ pc # "assertion_error") =>
       Outcome = loadOutcomeLabours(matrix, granularity, sampling, start,
                                    last_days, calls[1])

(***************************************************************************)
(* The CORS web server (src/python/labours/cors_web_server.py) with its    *)
(* two users: write_embeddings (embeddings.py) and the end of main         *)
(* (cli.py).  Two threads: the main thread and web_server.thread, whose    *)
(* target is serve.  Every action is one step of one of the two threads.   *)
(***************************************************************************)
\* the property running: self.server is not None
running == server # "None"

ServerInit ==
    /\ pc = "server"
    /\ matrix = <<>>
    /\ InterpIdle
    /\ KMIdle
    /\ LoadIdle
    /\ main_pc = "modes"
    /\ run_server \in BOOLEAN
    /\ all_mode \in BOOLEAN
    /\ pending \in 0 .. MaxCalls
    /\ thread = "initial"
    /\ server = "None"
    /\ shutdown_request = FALSE
    /\ start_calls = 0

\* write_embeddings, line 196: if run_server and not web_server.running
WriteRunning ==
    /\ main_pc = "modes"
    /\ pending > 0
    /\ IF run_server /\ ~running
       THEN main_pc' = "write_start" /\ pending' = pending
       ELSE main_pc' = "modes" /\ pending' = pending - 1
    /\ UNCHANGED <<run_server, all_mode, thread, server, shutdown_request, start_calls>>
    /\ UNCHANGED <<pc, interpVars, kmVars, loadVars>>

\* write_embeddings, line 197: web_server.start(), that is self.thread.start();
\* Thread.start raises RuntimeError on a thread that was started before, and
\* neither write_embeddings nor main catches it
WriteStart ==
    /\ main_pc = "write_start"
    /\ start_calls' = start_calls + 1
    /\ IF thread = "initial"
       THEN thread' = "started" /\ main_pc' = "modes" /\ pending' = pending - 1
       ELSE thread' = thread /\ main_pc' = "runtime_error" /\ pending' = pending
    /\ UNCHANGED <<run_server, all_mode, server, shutdown_request>>
    /\ UNCHANGED <<pc, interpVars, kmVars, loadVars>>

\* main, lines 448-453: the mode raises ImportError before it writes (train_
\* embeddings imports tensorflow); main goes on to the next mode when all
\* the modes were asked for and raises otherwise
ModeImportError ==
    /\ main_pc = "modes"
    /\ pending > 0
    /\ IF all_mode
       THEN main_pc' = "modes" /\ pending' = pending - 1
       ELSE main_pc' = "import_error" /\ pending' = pending
    /\ UNCHANGED <<run_server, all_mode, thread, server, shutdown_request,
                   start_calls>>
    /\ UNCHANGED <<pc, interpVars, kmVars, loadVars>>

\* serve, lines 9-17: the server thread builds ClojureServer, whose __init__
\* binds the socket and then sets outer.server
ServeBind ==
    /\ thread = "started"
    /\ thread' = "serving"
    /\ server' = "httpd"
    /\ UNCHANGED <<main_pc, run_server, all_mode, pending, shutdown_request, start_calls>>
    /\ UNCHANGED <<pc, interpVars, kmVars, loadVars>>

\* serve, line 16: HTTPServer.__init__ raises (the port is taken) before
\* line 17, and the server thread ends with server still None
ServeFail ==
    /\ thread = "started"
    /\ thread' = "failed"
    /\ UNCHANGED <<main_pc, run_server, all_mode, pending, server, shutdown_request,
                   start_calls>>
    /\ UNCHANGED <<pc, interpVars, kmVars, loadVars>>

\* serve, line 24: serve_forever sees the shutdown request and returns
ServeShutdown ==
    /\ thread = "serving"
    /\ shutdown_request
    /\ thread' = "shut_down"
    /\ UNCHANGED <<main_pc, run_server, all_mode, pending, server, shutdown_request,
                   start_calls>>
    /\ UNCHANGED <<pc, interpVars, kmVars, loadVars>>

\* serve returns and the server thread ends
ServeExit ==
    /\ thread = "shut_down"
    /\ thread' = "finished"
    /\ UNCHANGED <<main_pc, run_server, all_mode, pending, server, shutdown_request,
                   start_calls>>
    /\ UNCHANGED <<pc, interpVars, kmVars, loadVars>>

\* main, line 455, after the loop over the modes: if web_server.running
MainRunning ==
    /\ main_pc = "modes"
    /\ pending = 0
    /\ main_pc' = IF running THEN "sleep" ELSE "returned"
    /\ UNCHANGED <<run_server, all_mode, pending, thread, server, shutdown_request,
                   start_calls>>
    /\ UNCHANGED <<pc, interpVars, kmVars, loadVars>>

\* main, lines 456-462: the sleep, ended by the time or by Ctrl-C
MainSleep ==
    /\ main_pc = "sleep"
    /\ main_pc' = "stop"
    /\ UNCHANGED <<run_server, all_mode, pending, thread, server, shutdown_request,
                   start_calls>>
    /\ UNCHANGED <<pc, interpVars, kmVars, loadVars>>

\* stop, line 30: if self.running
StopRunning ==
    /\ main_pc = "stop"
    /\ main_pc' = IF running THEN "shutdown" ELSE "returned"
    /\ UNCHANGED <<run_server, all_mode, pending, thread, server, shutdown_request,
                   start_calls>>
    /\ UNCHANGED <<pc, interpVars, kmVars, loadVars>>

\* stop, line 31: self.server.shutdown() sets the request ...
StopShutdown ==
    /\ main_pc = "shutdown"
    /\ shutdown_request' = TRUE
    /\ main_pc' = "shutdown_wait"
    /\ UNCHANGED <<run_server, all_mode, pending, thread, server, start_calls>>
    /\ UNCHANGED <<pc, interpVars, kmVars, loadVars>>

\* ... and blocks until serve_forever has returned
StopShutdownWait ==
    /\ main_pc = "shutdown_wait"
    /\ thread \in {"shut_down", "finished"}
    /\ main_pc' = "join"
    /\ UNCHANGED <<run_server, all_mode, pending, thread, server, shutdown_request,
                   start_calls>>
    /\ UNCHANGED <<pc, interpVars, kmVars, loadVars>>

\* stop, line 32: self.thread.join() blocks until the server thread has
\* ended; main returns after stop
StopJoin ==
    /\ main_pc = "join"
    /\ thread = "finished"
    /\ main_pc' = "returned"
    /\ UNCHANGED <<run_server, all_mode, pending, thread, server, shutdown_request,
                   start_calls>>
    /\ UNCHANGED <<pc, interpVars, kmVars, loadVars>>

ServerNext ==
    \/ WriteRunning
    \/ WriteStart
    \/ ModeImportError
    \/ ServeBind
    \/ ServeFail
    \/ ServeShutdown
    \/ ServeExit
    \/ MainRunning
    \/ MainSleep
    \/ StopRunning
    \/ StopShutdown
    \/ StopShutdownWait
    \/ StopJoin

SpecServer == ServerInit /\ [][ServerNext]_vars

(***************************************************************************)
(* Claims about the web server (checked under SpecServer).                 *)
(***************************************************************************)
\* the server thread is alive: started and not yet ended
ThreadAlive == thread \in {"started", "serving", "shut_down"}

\* C29: the server thread is started at most once: web_server.thread.start()
\* is called at most once in a run, so it is never called on a thread that
\* was started before.
StartedAtMostOnce == start_calls <= 1 /\ main_pc # "runtime_error"

\* C30: when main has returned after web_server.start() was called, no
\* server thread is left running.
NoThreadLeftRunning ==
    (main_pc = "returned" /\ start_calls > 0) => ~ThreadAlive

=============================================================================
